---- MODULE Spec2Model ----
(***************************************************************************)
(* Model of assignments/05-deep-classification/preprocess.py: the          *)
(* ModelNet40Dataset constructor (label registry, manifest loader,         *)
(* stratified split, seeded shuffle), the TFRecord writer, and the         *)
(* serialize / deserialize / preprocess functions.                         *)
(*                                                                         *)
(* Strings are sequences of one-character strings, so that split, rsplit   *)
(* and strip are computed character by character.  Library calls are       *)
(* modelled by what the library does: StratifiedShuffleSplit by            *)
(* scikit-learn's _validate_shuffle_split, _approximate_mode and           *)
(* _iter_indices, random.shuffle by CPython's Fisher-Yates loop.  The two  *)
(* pseudo-random generators (numpy's RandomState and the module-level      *)
(* generator of `random`) are deterministic functions of their seed; their *)
(* bit streams are represented by a small congruential generator.          *)
(* float64 values are integers, float32 values the even integers.          *)
(***************************************************************************)
EXTENDS Integers, Sequences, FiniteSets, TLC

\* ModelNet40Dataset.N is 10000 in the source; the model runs the same code
\* with a point count of 2 (the code is uniform in N).
N == 2
d == 3
C == 3

\* ------------------------------------------------------------------ bounds
MaxLines == 3     \* longest enumerated training manifest
MaxBlock == 16    \* largest two-class training manifest
MaxSeed == 0      \* random_seed ranges over 0..MaxSeed
MaxChars == 4     \* longest manifest content of the loader specification
MaxRows == 3      \* most rows of an array handed to serialize

\* ----------------------------------------------------------------- helpers
Min(S) == CHOOSE x \in S : \A y \in S : x <= y
Max(S) == CHOOSE x \in S : \A y \in S : y <= x
Range(s) == {s[i] : i \in 1..Len(s)}

RECURSIVE SumSeq(_)
SumSeq(s) == IF s = <<>> THEN 0 ELSE Head(s) + SumSeq(Tail(s))

RECURSIVE Concat(_)
Concat(ss) == IF ss = <<>> THEN <<>> ELSE Head(ss) \o Concat(Tail(ss))

\* the elements of a set of integers, ascending
RECURSIVE Ascending(_)
Ascending(S) == IF S = {} THEN <<>> ELSE <<Min(S)>> \o Ascending(S \ {Min(S)})

\* x[index] of numpy: the elements of x at the 1-based positions of index
Gather(x, index) == [k \in 1..Len(index) |-> x[index[k]]]

\* how often e occurs in s; s and t hold the same elements equally often
CountOf(s, e) == Cardinality({i \in 1..Len(s) : s[i] = e})
SameMultiset(s, t) ==
    /\ Len(s) = Len(t)
    /\ \A e \in Range(s) \cup Range(t) : CountOf(s, e) = CountOf(t, e)

\* ---------------------------------------------------------------- strings
Whitespace == {" ", "\n"}

\* code points, for the lexicographic order np.unique sorts by
CharCode(c) ==
    CASE c = "\n" -> 10 [] c = " " -> 32
      [] c = "0" -> 48 [] c = "1" -> 49 [] c = "2" -> 50 [] c = "3" -> 51
      [] c = "4" -> 52 [] c = "5" -> 53 [] c = "6" -> 54 [] c = "7" -> 55
      [] c = "8" -> 56 [] c = "9" -> 57 [] c = "_" -> 95
      [] c = "a" -> 97 [] c = "c" -> 99 [] c = "h" -> 104 [] c = "r" -> 114
      [] c = "x" -> 120

RECURSIVE LexLess(_, _)
LexLess(s, t) ==
    IF t = <<>> THEN FALSE
    ELSE IF s = <<>> THEN TRUE
    ELSE IF Head(s) = Head(t) THEN LexLess(Tail(s), Tail(t))
    ELSE CharCode(Head(s)) < CharCode(Head(t))

\* sorted(set of strings)
RECURSIVE SortedStrings(_)
SortedStrings(S) ==
    IF S = {} THEN <<>>
    ELSE LET m == CHOOSE s \in S : \A t \in S \ {s} : LexLess(s, t)
         IN <<m>> \o SortedStrings(S \ {m})

Positions(s, ch) == {i \in 1..Len(s) : s[i] = ch}

\* t.split('_')[0]
SplitFirst(t) ==
    IF Positions(t, "_") = {} THEN t
    ELSE SubSeq(t, 1, Min(Positions(t, "_")) - 1)

\* t.rsplit('_', 1)
RSplit(t) ==
    IF Positions(t, "_") = {} THEN <<t>>
    ELSE <<SubSeq(t, 1, Max(Positions(t, "_")) - 1),
           SubSeq(t, Max(Positions(t, "_")) + 1, Len(t))>>

\* str.strip()
Strip(s) ==
    LET keep == {i \in 1..Len(s) : s[i] \notin Whitespace}
    IN IF keep = {} THEN <<>> ELSE SubSeq(s, Min(keep), Max(keep))

\* f.readlines(): every line keeps its "\n"; a last line without one is kept
RECURSIVE ReadLines(_)
ReadLines(text) ==
    IF text = <<>> THEN <<>>
    ELSE IF Positions(text, "\n") = {} THEN <<text>>
    ELSE LET nl == Min(Positions(text, "\n"))
         IN <<SubSeq(text, 1, nl)>> \o ReadLines(SubSeq(text, nl + 1, Len(text)))

\* a file of the input directory: absent, or its text
NoFile == [exists |-> FALSE, text |-> <<>>]
File(text) == [exists |-> TRUE, text |-> text]

\* the text whose lines are the given strings, each ended by "\n"
Text(lines) == Concat([i \in 1..Len(lines) |-> lines[i] \o <<"\n">>])

\* __load_examples: open (FileNotFoundError when absent), readlines, strip
LoadExamples(file) ==
    LET lines == ReadLines(file.text)
    IN [ok |-> file.exists,
        examples |-> IF file.exists
                     THEN [i \in 1..Len(lines) |-> Strip(lines[i])]
                     ELSE <<>>]

\* __load_labels: the stripped lines, and the dict comprehension
\* {label: id for id, label in enumerate(labels)} (the last id of a label wins)
LoadLabels(file) ==
    LET lines == ReadLines(file.text)
        ls == [i \in 1..Len(lines) |-> Strip(lines[i])]
    IN [ok |-> file.exists,
        labels |-> IF file.exists THEN ls ELSE <<>>,
        encoder |-> IF file.exists
                    THEN [l \in Range(ls) |->
                            Max({i \in 1..Len(ls) : ls[i] = l}) - 1]
                    ELSE <<>>]

\* __get_label by the first underscore instead of the last
GetLabelFirstUnderscore(t) ==
    [ok |-> Len(RSplit(t)) = 2,
     label |-> IF Len(RSplit(t)) = 2 THEN SplitFirst(t) ELSE <<>>]

\* __get_label: label, _ = filename_example.rsplit('_', 1)
\* (unpacking a one-element list raises ValueError)
GetLabel(t) ==
    [ok |-> Len(RSplit(t)) = 2,
     label |-> IF Len(RSplit(t)) = 2 THEN RSplit(t)[1] ELSE <<>>]

\* ------------------------------------------------------- random generators
\* the state a generator is in after seeding with an int
RngSeed(seed) == 1 + ((seed * 7919 + 42) % 30268)
RngNext(g) == (171 * g) % 30269
\* one draw of an integer in 0..n-1, and the state after it
RandBelow(g, n) == [value |-> RngNext(g) % n, g |-> RngNext(g)]

\* random.seed(random_seed) on the module-level generator in state g
SeedSkipped(g, seed) == g
Seed(g, seed) == RngSeed(seed)

\* x[i], x[j] = x[j], x[i]
Swap(x, i, j) == [x EXCEPT ![i] = x[j], ![j] = x[i]]

\* random.shuffle(x) / RandomState.shuffle(x):
\*   for i in reversed(range(1, len(x))): j = randbelow(i + 1); swap x[i], x[j]
\* (positions are 1-based here, so i runs from Len(x) down to 2)
RECURSIVE ShuffleFrom(_, _, _)
ShuffleFrom(x, g, i) ==
    IF i < 2 THEN [x |-> x, g |-> g]
    ELSE LET r == RandBelow(g, i)
         IN ShuffleFrom(Swap(x, i, r.value + 1), r.g, i - 1)

Shuffle(x, g) == ShuffleFrom(x, g, Len(x))

\* rng.permutation(n), as 1-based positions
Permutation(n, g) == Shuffle([i \in 1..n |-> i], g)

\* rng.choice(inds, size=k, replace=False): inds[permutation(len(inds))[:k]]
Choice(inds, k, g) ==
    LET p == Permutation(Len(inds), g)
    IN [picked |-> {inds[p.x[j]] : j \in 1..k}, g |-> p.g]

\* ------------------------------------------------- StratifiedShuffleSplit
Ceil(a, b) == (a + b - 1) \div b

\* the loop of _approximate_mode over the distinct remainders, largest first
RECURSIVE AddRemainders(_, _, _, _, _)
AddRemainders(floored, need, values, remainder, g) ==
    IF need = 0 \/ values = {} THEN [n |-> floored, g |-> g]
    ELSE LET value == Max(values)
             inds == Ascending({i \in 1..Len(remainder) : remainder[i] = value})
             addNow == IF Len(inds) < need THEN Len(inds) ELSE need
             ch == Choice(inds, addNow, g)
         IN AddRemainders(
                [i \in 1..Len(floored) |->
                    IF i \in ch.picked THEN floored[i] + 1 ELSE floored[i]],
                need - addNow, values \ {value}, remainder, ch.g)

\* _approximate_mode(class_counts, n_draws, rng); continuous[i] is
\* class_counts[i] * n_draws / sum(class_counts), kept as a fraction of the sum
ApproximateMode(classCounts, nDraws, g) ==
    LET total == SumSeq(classCounts)
        floored == [i \in 1..Len(classCounts) |-> (classCounts[i] * nDraws) \div total]
        remainder == [i \in 1..Len(classCounts) |-> (classCounts[i] * nDraws) % total]
    IN AddRemainders(floored, nDraws - SumSeq(floored), Range(remainder), remainder, g)

\* _validate_shuffle_split for a float test_size and train_size=None:
\* n_test = ceil(test_size * n_samples), n_train = n_samples - n_test
NTestRounded(p, nSamples) ==
    LET q == (p.num * nSamples) \div p.den
        r == (p.num * nSamples) % p.den
    IN IF 2 * r < p.den THEN q
       ELSE IF 2 * r > p.den THEN q + 1
       ELSE IF q % 2 = 0 THEN q ELSE q + 1
NTest(p, nSamples) == Ceil(p.num * nSamples, p.den)

\* test.extend(perm_indices_class_i[n_i[i] : n_i[i] + t_i[i]])
TestSliceFromStart(permIndices, n, t) == SubSeq(permIndices, 1, t)
TestSlice(permIndices, n, t) == SubSeq(permIndices, n + 1, n + t)

\* the loop over the classes of _iter_indices
RECURSIVE PerClass(_, _, _, _, _, _, _)
PerClass(c, classIndices, ni, ti, g, trainAcc, testAcc) ==
    IF c > Len(classIndices) THEN [train |-> trainAcc, test |-> testAcc, g |-> g]
    ELSE LET perm == Permutation(Len(classIndices[c]), g)
             permIndices == Gather(classIndices[c], perm.x)
         IN PerClass(c + 1, classIndices, ni, ti, perm.g,
                     trainAcc \o SubSeq(permIndices, 1, ni[c]),
                     testAcc \o TestSlice(permIndices, ni[c], ti[c]))

\* the stratum of every example: [t.split('_')[0] for t in self.__train]
StrataNone(examples) == [i \in 1..Len(examples) |-> <<>>]
Strata(examples) == [i \in 1..Len(examples) |-> SplitFirst(examples[i])]

\* np.unique(y) and the positions of every class, classes in sorted order
ClassIndices(y) ==
    LET classes == SortedStrings(Range(y))
    IN [c \in 1..Len(classes) |-> Ascending({i \in 1..Len(y) : y[i] = classes[c]})]

ClassCounts(classIndices) == [c \in 1..Len(classIndices) |-> Len(classIndices[c])]

\* the checks of _validate_shuffle_split and _iter_indices that raise ValueError
SplitAccepted(classCounts, nTrain, nTest) ==
    /\ nTrain > 0
    /\ \A c \in 1..Len(classCounts) : classCounts[c] >= 2
    /\ nTrain >= Len(classCounts)
    /\ nTest >= Len(classCounts)

\* train = rng.permutation(train); test = rng.permutation(test)
PermuteTest(trainP, test) ==
    [ok |-> TRUE, fit_index |-> trainP.x, validate_index |-> Shuffle(test, trainP.g).x]
PermuteBoth(picked) == PermuteTest(Shuffle(picked.train, picked.g), picked.test)

\* t_i = _approximate_mode(class_counts - n_i, n_test, rng), then the classes
DrawTest(classIndices, ni, ti) ==
    PermuteBoth(PerClass(1, classIndices, ni, ti.n, ti.g, <<>>, <<>>))
DrawTrain(classIndices, classCounts, ni, nTest) ==
    DrawTest(classIndices, ni.n,
             ApproximateMode([c \in 1..Len(classCounts) |-> classCounts[c] - ni.n[c]],
                             nTest, ni.g))

\* _iter_indices once the sizes are known; rng = RandomState(seed)
IterIndices(classIndices, classCounts, nTrain, nTest, seed) ==
    IF SplitAccepted(classCounts, nTrain, nTest)
    THEN DrawTrain(classIndices, classCounts,
                   ApproximateMode(classCounts, nTrain, RngSeed(seed)), nTest)
    ELSE [ok |-> FALSE, fit_index |-> <<>>, validate_index |-> <<>>]

SplitClasses(classIndices, nSamples, nTest, seed) ==
    IterIndices(classIndices, ClassCounts(classIndices), nSamples - nTest, nTest, seed)

\* sss.split(train, y) with n_splits=1, test_size=p, random_state=seed:
\* ValueError, or the one (fit_index, validate_index) pair it yields
StratifiedShuffleSplit(examples, p, seed) ==
    SplitClasses(ClassIndices(Strata(examples)), Len(examples),
                 NTest(p, Len(examples)), seed)

\* ------------------------------------------ serialize, deserialize, preprocess
\* a numpy array of shape (n, m): its entries row by row
Array(n, m, v) == [n |-> n, m |-> m, v |-> v]

\* the float32 nearest to a float64 (ties to even): float64 values are the
\* integers, float32 values the even ones
Float32(x) ==
    IF x % 2 = 0 THEN x ELSE IF (x + 1) % 4 = 0 THEN x + 1 ELSE x - 1

\* __floats_feature: FloatList(value=value.reshape(-1))
FloatsFeatureColumnMajor(value) ==
    [i \in 1..Len(value.v) |->
        Float32(value.v[((i - 1) % value.n) * value.m + ((i - 1) \div value.n) + 1])]
FloatsFeature(value) == [i \in 1..Len(value.v) |-> Float32(value.v[i])]

\* __int64_feature: Int64List(value=[value])
Int64Feature(value) == <<value>>

\* serialize: AssertionError when the row counts differ, else the Example
Serialize(xyz, points, label) ==
    [ok |-> xyz.n = points.n,
     example |-> [xyz |-> FloatsFeature(xyz),
                  points |-> FloatsFeature(points),
                  label |-> Int64Feature(label),
                  N |-> Int64Feature(xyz.n),
                  d |-> Int64Feature(xyz.m),
                  C |-> Int64Feature(points.m)]]

\* deserialize: parse_single_example against the FixedLenFeature lengths
\* [N * d], [N * C], [1], [1], [1], [1]; a feature of another length raises
Deserialize(ex) ==
    [ok |-> /\ Len(ex.xyz) = N * d
            /\ Len(ex.points) = N * C
            /\ Len(ex.label) = 1 /\ Len(ex.N) = 1
            /\ Len(ex.d) = 1 /\ Len(ex.C) = 1,
     example |-> ex]

\* tf.reshape(flat, (n, m)): the rows of the flat buffer
Reshape(flat, n, m) == [i \in 1..n |-> SubSeq(flat, (i - 1) * m + 1, i * m)]

\* xyz -= tf.reduce_mean(xyz, axis=0)
Center(rows) ==
    LET mean == [k \in 1..Len(rows[1]) |->
                    Float32(SumSeq([i \in 1..Len(rows) |-> rows[i][k]]) \div Len(rows))]
    IN [i \in 1..Len(rows) |-> [k \in 1..Len(rows[i]) |-> rows[i][k] - mean[k]]]

\* preprocess, with the permutation tf.random.shuffle drew (1-based)
PreprocessXyzOnly(ex, shuffled_indices) ==
    LET xyz == Center(Reshape(ex.xyz, N, d))
        points == Reshape(ex.points, N, C)
    IN [features |-> [j \in 1..N |-> xyz[shuffled_indices[j]] \o points[j]],
        label |-> ex.label]

Preprocess(ex, shuffled_indices) ==
    LET xyz == Center(Reshape(ex.xyz, N, d))
        points == Reshape(ex.points, N, C)
        concat == [i \in 1..N |-> xyz[i] \o points[i]]
    IN [features |-> Gather(concat, shuffled_indices), label |-> ex.label]

\* every permutation of 1..n
Perms(n) == {f \in [1..n -> 1..n] : \A i, j \in 1..n : f[i] = f[j] => i = j}

\* ------------------------------------------------------ point cloud files
\* <input_dir>/<label>/<identifier>.txt as pd.read_csv sees it.  The files
\* of the modelled directory, by the index after the last underscore:
\* 3 has no file, 4 has a file one row short, 5 holds a non-numeric row,
\* every other index has N rows of six numbers.
IndexOf(identifier) == RSplit(identifier)[Len(RSplit(identifier))]
CloudRows(label, identifier, n) ==
    LET base == 10 * CharCode(IndexOf(identifier)[Len(IndexOf(identifier))]) + 100 * Len(label)
    IN [i \in 1..n |-> [k \in 1..6 |-> base + 6 * (i - 1) + k]]
PointCloudFile(label, identifier) ==
    LET index == IndexOf(identifier)
    IN IF index = <<"3">> THEN [kind |-> "missing", rows |-> <<>>]
       ELSE IF index = <<"4">>
            THEN [kind |-> "numeric", rows |-> CloudRows(label, identifier, N - 1)]
       ELSE IF index = <<"5">> THEN [kind |-> "text", rows |-> <<>>]
       ELSE [kind |-> "numeric", rows |-> CloudRows(label, identifier, N)]

\* df[[columns]].values.astype(np.float32)
Columns(rows, from, to) ==
    Array(Len(rows), to - from + 1,
          Concat([i \in 1..Len(rows) |->
                    [k \in 1..(to - from + 1) |-> Float32(rows[i][from + k - 1])]]))

\* self.__encoder[label]: KeyError when the label is no key
EncoderLookupOrZero(enc, label) ==
    [ok |-> TRUE, id |-> IF label \in DOMAIN enc THEN enc[label] ELSE 0]
EncoderLookup(enc, label) ==
    [ok |-> label \in DOMAIN enc, id |-> IF label \in DOMAIN enc THEN enc[label] ELSE 0]

\* writer.write(serialized_example): the record goes to the end of the file
WriterWriteInFront(records, record) == <<record>> \o records
WriterWrite(records, record) == Append(records, record)

\* one pass of the loop body of __write for one identifier: the exception
\* it raises, or the record it hands to the writer
WriteOne(enc, identifier) ==
    LET gl == GetLabel(identifier)
        file == PointCloudFile(gl.label, identifier)
        look == EncoderLookup(enc, gl.label)
        ser == Serialize(Columns(file.rows, 1, 3), Columns(file.rows, 4, 6), look.id)
        raised == IF ~gl.ok THEN "ValueError"
                  ELSE IF file.kind = "missing" THEN "FileNotFoundError"
                  ELSE IF file.kind = "text" THEN "ValueError"
                  ELSE IF ~look.ok THEN "KeyError"
                  ELSE IF ~ser.ok THEN "AssertionError"
                  ELSE ""
    IN [err |-> raised, record |-> IF raised = "" THEN <<ser.example>> ELSE <<>>]

\* ------------------------------------------------------------ the state
VARIABLES
    labelsFile, trainFile, testFile,   \* the three text files of input_dir
    pc,                  \* "new", "failed", "built", "writing", "written"
    err,                 \* the exception that ended the last operation, or ""
    args,                \* size_validate and random_seed of the constructor
    labels, encoder,     \* self.__labels, self.__encoder
    train,               \* self.__train
    fit_index, validate_index,   \* the index arrays sss.split yielded
    fit, validate, test, \* self.__fit, self.__validate, self.__test
    pyRandom,            \* state of the module-level generator of `random`
    prev,                \* the previous successful construction, if any
    part, pos,           \* write(): partition being written, examples done
    tfrecords,           \* the three output files, each a sequence of records
    content, examples,   \* a manifest handed to __load_examples, its result
    arrays,              \* xyz, points and label handed to serialize
    serialized,          \* the serialized Example
    example,             \* what deserialize returned
    features,            \* what preprocess returned
    step                 \* position of the codec and loader runs

dataset == <<labels, encoder, train, fit_index, validate_index, fit, validate, test>>
inputDir == <<labelsFile, trainFile, testFile>>
writer == <<part, pos, tfrecords>>
codec == <<content, examples, arrays, serialized, example, features, step>>
vars == <<inputDir, pc, err, args, dataset, pyRandom, prev, writer, codec>>

\* ------------------------------------------------------------ __init__
\* an exception leaves __init__: there is no object
Raised(exception, g) ==
    [err |-> exception, labels |-> <<>>, encoder |-> <<>>, train |-> <<>>,
     fit_index |-> <<>>, validate_index |-> <<>>,
     fit |-> <<>>, validate |-> <<>>, test |-> <<>>, g |-> g]

\* random.shuffle(self.__test), the last statement
ShuffleTest(ld, manifest, sss, s1, s2, s3) ==
    [err |-> "", labels |-> ld.labels, encoder |-> ld.encoder, train |-> manifest,
     fit_index |-> sss.fit_index, validate_index |-> sss.validate_index,
     fit |-> s1.x, validate |-> s2.x, test |-> s3.x, g |-> s3.g]
\* random.shuffle(self.__validate)
ShuffleValidate(ld, manifest, sss, testManifest, s1, s2) ==
    ShuffleTest(ld, manifest, sss, s1, s2, Shuffle(testManifest, s2.g))
\* random.shuffle(self.__fit), on self.__train[fit_index]
ShuffleFit(ld, manifest, sss, testManifest, s1) ==
    ShuffleValidate(ld, manifest, sss, testManifest, s1,
                    Shuffle(Gather(manifest, sss.validate_index), s1.g))

\* from the split on: ValueError of the split, the test manifest, the seeding
SplitAndShuffle(ld, manifest, sss, te, seed, g) ==
    IF ~sss.ok THEN Raised("ValueError", g)
    ELSE IF ~te.ok THEN Raised("FileNotFoundError", g)
    ELSE ShuffleFit(ld, manifest, sss, te.examples,
                    Shuffle(Gather(manifest, sss.fit_index), Seed(g, seed)))

Loaded(ld, tr, te, p, seed, g) ==
    IF ~ld.ok \/ ~tr.ok THEN Raised("FileNotFoundError", g)
    ELSE SplitAndShuffle(ld, tr.examples,
                         StratifiedShuffleSplit(tr.examples, p, seed), te, seed, g)

\* the constructor, run with the module-level generator in state g
Init__(p, seed, g) ==
    Loaded(LoadLabels(labelsFile), LoadExamples(trainFile), LoadExamples(testFile),
           p, seed, g)

NoArgs == [size_validate |-> [num |-> 0, den |-> 1], random_seed |-> 0]

Construct(p, seed) ==
    /\ pc \in {"new", "failed", "built"}
    /\ \E r \in {Init__(p, seed, pyRandom)} :
          /\ pc' = IF r.err = "" THEN "built" ELSE "failed"
          /\ err' = r.err
          /\ args' = IF r.err = "" THEN [size_validate |-> p, random_seed |-> seed]
                     ELSE NoArgs
          /\ labels' = r.labels
          /\ encoder' = r.encoder
          /\ train' = r.train
          /\ fit_index' = r.fit_index
          /\ validate_index' = r.validate_index
          /\ fit' = r.fit
          /\ validate' = r.validate
          /\ test' = r.test
          /\ pyRandom' = r.g
    /\ prev' = IF pc = "built"
               THEN <<[args |-> args, fit |-> fit, validate |-> validate, test |-> test]>>
               ELSE prev
    /\ UNCHANGED <<inputDir, writer, codec>>

\* ------------------------------------------------------------- write()
\* an output file: absent, or the records written to it so far
NoRecords == [exists |-> FALSE, records |-> <<>>]
\* tf.io.TFRecordWriter(filename) creates the file, or empties an old one
Opened == [exists |-> TRUE, records |-> <<>>]

\* the sequence write() hands to __write for the q-th output file
Partition(q) == CASE q = 1 -> fit [] q = 2 -> validate [] q = 3 -> test

\* write() is called and __write opens <output_name>_train.tfrecord
WriteBegin ==
    /\ pc = "built"
    /\ pc' = "writing"
    /\ part' = 1
    /\ pos' = 0
    /\ tfrecords' = [tfrecords EXCEPT ![1] = Opened]
    /\ UNCHANGED <<inputDir, err, args, dataset, pyRandom, prev, codec>>

\* one iteration of the loop of __write; an exception leaves the loop and
\* write(), and the with statement closes the file as it is
WriteExample ==
    /\ pc = "writing"
    /\ pos < Len(Partition(part))
    /\ \E w \in {WriteOne(encoder, Partition(part)[pos + 1])} :
          IF w.err = ""
          THEN /\ tfrecords' = [tfrecords EXCEPT ![part].records =
                                    WriterWrite(@, w.record[1])]
               /\ pos' = pos + 1
               /\ UNCHANGED <<pc, err>>
          ELSE /\ pc' = "write_failed"
               /\ err' = w.err
               /\ UNCHANGED <<pos, tfrecords>>
    /\ UNCHANGED <<inputDir, args, dataset, pyRandom, prev, part, codec>>

\* the loop of __write is over: the file is closed and write() goes on to the
\* next __write, or returns after the third
WriteNext ==
    /\ pc = "writing"
    /\ pos = Len(Partition(part))
    /\ IF part < 3
       THEN /\ part' = part + 1
            /\ pos' = 0
            /\ tfrecords' = [tfrecords EXCEPT ![part + 1] = Opened]
            /\ UNCHANGED pc
       ELSE /\ pc' = "written"
            /\ UNCHANGED <<part, pos, tfrecords>>
    /\ UNCHANGED <<inputDir, err, args, dataset, pyRandom, prev, codec>>

\* ------------------------------------------------------------- the inputs
SizesValidate == {[num |-> 3, den |-> 20], [num |-> 1, den |-> 5], [num |-> 1, den |-> 2]}
Seeds == 0..MaxSeed

Digit(k) == <<"0", "1", "2", "3", "4", "5", "6", "7", "8", "9">>[k + 1]
\* the identifier <name>_<k>
Id(name, k) ==
    name \o <<"_">> \o (IF k < 10 THEN <<Digit(k)>> ELSE <<Digit(k \div 10), Digit(k % 10)>>)

Airplane == <<"a">>
Chair == <<"c">>
RangeHood == <<"r", "_", "h">>

Ids == {Id(Airplane, 1), Id(Airplane, 2), Id(Chair, 1), Id(RangeHood, 1)}

RECURSIVE SeqsUpTo(_, _)
SeqsUpTo(S, n) ==
    IF n = 0 THEN {<<>>}
    ELSE LET shorter == SeqsUpTo(S, n - 1)
         IN shorter \cup {Append(s, e) : s \in {t \in shorter : Len(t) = n - 1}, e \in S}

\* a manifest of a airplanes followed by c chairs, all distinct
Block(a, c) == [i \in 1..(a + c) |->
                  IF i <= a THEN Id(Airplane, i) ELSE Id(Chair, i - a)]
Blocks == {Block(a, c) : a \in 2..3, c \in 2..(MaxBlock - 2)}

TrainManifests == SeqsUpTo(Ids, MaxLines) \cup {b \in Blocks : Len(b) <= MaxBlock}

\* `random` seeds its module-level generator from the system at import
UnseededStates == {1, 2}

Idle ==
    /\ pc = "new" /\ err = "" /\ args = NoArgs
    /\ labels = <<>> /\ encoder = <<>> /\ train = <<>>
    /\ fit_index = <<>> /\ validate_index = <<>>
    /\ fit = <<>> /\ validate = <<>> /\ test = <<>>
    /\ pyRandom \in UnseededStates /\ prev = <<>>
    /\ part = 0 /\ pos = 0 /\ tfrecords = [q \in 1..3 |-> NoRecords]

CodecIdle ==
    /\ content = NoFile /\ examples = <<>>
    /\ arrays = <<>> /\ serialized = <<>> /\ example = <<>> /\ features = <<>>
    /\ step = "none"

\* a dataset directory with any bounded training manifest
InitSplit ==
    /\ labelsFile = File(Text(<<Airplane, Chair, RangeHood>>))
    /\ trainFile \in {File(Text(m)) : m \in TrainManifests}
    /\ testFile \in {File(Text(<<Id(Chair, 1), Id(Airplane, 2), Id(Chair, 1)>>)), NoFile}
    /\ Idle /\ CodecIdle

NextSplit == \E p \in SizesValidate, seed \in Seeds : Construct(p, seed)

SpecSplit == InitSplit /\ [][NextSplit]_vars

\* ------------------------------------------------ claims about the split
Abs(x) == IF x < 0 THEN -x ELSE x
NoDuplicates(s) == \A i, j \in 1..Len(s) : s[i] = s[j] => i = j
SizeValidate == args.size_validate
\* round(a / b) as Python rounds: halves go to the even neighbour
Round(a, b) ==
    IF 2 * (a % b) < b THEN a \div b
    ELSE IF 2 * (a % b) > b THEN (a \div b) + 1
    ELSE IF (a \div b) % 2 = 0 THEN a \div b ELSE (a \div b) + 1
\* the strata of the training manifest and their members in a sequence
StrataOf(s) == {SplitFirst(s[i]) : i \in 1..Len(s)}
InStratum(s, k) == Cardinality({i \in 1..Len(s) : SplitFirst(s[i]) = k})

\* C1 as stated: after a successful construction len(fit) + len(validate) is
\* the manifest size and no identifier occurs in both fit and validate, for
\* every manifest, those with repeated identifiers included.
C1_DisjointIdentifiers ==
    pc = "built" =>
        /\ Len(fit) + Len(validate) = Len(train)
        /\ Range(fit) \cap Range(validate) = {}

\* C1 amended: len(fit) + len(validate) is the manifest size, fit and validate
\* take disjoint sets of manifest positions that together cover every position
\* once, and no identifier occurs in both when the manifest repeats none.
C1_DisjointPositions ==
    pc = "built" =>
        /\ Len(fit) + Len(validate) = Len(train)
        /\ Range(fit_index) \cap Range(validate_index) = {}
        /\ Range(fit_index) \cup Range(validate_index) = 1..Len(train)
        /\ NoDuplicates(fit_index \o validate_index)
        /\ SameMultiset(fit \o validate, train)
        /\ NoDuplicates(train) => Range(fit) \cap Range(validate) = {}

C1_Witness ==
    /\ pc = "built" /\ NoDuplicates(train)
    /\ Len(fit) >= 2 /\ Len(validate) >= 2

\* C2 as stated: the validate subset has exactly round(p * T) elements.
C2_ValidateSizeRounded ==
    pc = "built" =>
        Len(validate) = Round(SizeValidate.num * Len(train), SizeValidate.den)

\* C2 amended: the validate subset has exactly ceil(p * T) elements.
C2_ValidateSizeCeiling ==
    pc = "built" =>
        Len(validate) = Ceil(SizeValidate.num * Len(train), SizeValidate.den)

C2_Witness ==
    /\ pc = "built"
    /\ (SizeValidate.num * Len(train)) % SizeValidate.den # 0
    /\ Len(validate) >= 2

\* C3 as stated: for every stratum s (the text before the first underscore)
\* with n_s members, the number of its members in validate differs from
\* p * n_s by at most 1.
C3_WithinOneOfP ==
    pc = "built" =>
        \A k \in StrataOf(train) :
            Abs(SizeValidate.den * InStratum(validate, k)
                  - SizeValidate.num * InStratum(train, k)) <= SizeValidate.den

\* C3 amended: the number of members of s in validate differs from
\* n_s * len(validate) / T by less than 1.
C3_WithinOneOfShare ==
    pc = "built" =>
        \A k \in StrataOf(train) :
            Abs(Len(train) * InStratum(validate, k)
                  - InStratum(train, k) * Len(validate)) < Len(train)

C3_Witness ==
    /\ pc = "built"
    /\ Cardinality(StrataOf(train)) >= 2
    /\ \E k \in StrataOf(train) :
          (InStratum(train, k) * Len(validate)) % Len(train) # 0

\* C8: each of fit, validate and test holds after the constructor's shuffle
\* the same identifiers, equally often, as before it, and a construction
\* with the same manifests, fraction and seed as the one before it yields
\* the same three sequences.
C8_ShufflePermutesDeterministically ==
    pc = "built" =>
        /\ SameMultiset(fit, Gather(train, fit_index))
        /\ SameMultiset(validate, Gather(train, validate_index))
        /\ SameMultiset(test, LoadExamples(testFile).examples)
        /\ (prev # <<>> /\ prev[1].args = args) =>
              /\ prev[1].fit = fit
              /\ prev[1].validate = validate
              /\ prev[1].test = test

C8_Witness ==
    /\ pc = "built" /\ prev # <<>> /\ prev[1].args = args
    /\ fit # Gather(train, fit_index)
    /\ test # LoadExamples(testFile).examples
    /\ Len(validate) >= 2

\* ------------------------------------------------ the conversion pipeline
Hood(k) == Id(RangeHood, k)
LabelFiles ==
    {File(Text(<<Airplane, Chair, <<"r">>, RangeHood>>)),
     File(Text(<<Chair, Airplane>>))}
TrainFiles ==
    {File(Text(m)) : m \in
        {<<Id(Airplane, 1), Id(Airplane, 2), Id(Chair, 1), Id(Chair, 2)>>,
         <<Hood(1), Id(Airplane, 1), Hood(2), Id(Airplane, 2)>>,
         <<Id(Airplane, 1), Id(Airplane, 2), Id(Airplane, 1), Hood(1), Hood(2),
           Id(Airplane, 2)>>,
         <<Id(Airplane, 1), Id(Airplane, 1), Id(Airplane, 2)>>,
         <<Id(Airplane, 1), Id(Airplane, 3), Id(Airplane, 2)>>,
         <<Id(Airplane, 4), Id(Airplane, 1), Id(Airplane, 5)>>,
         <<Id(Airplane, 1), Id(Airplane, 2), <<>>, <<>> >>,
         <<<<"x">>, <<"x">>, <<"x">> >>}}
TestFiles ==
    {File(Text(<<Id(Chair, 1), Id(Airplane, 2)>>)),
     File(Text(<<Hood(1), Hood(1)>>)),
     File(<<>>)}

Init ==
    /\ labelsFile \in LabelFiles
    /\ trainFile \in TrainFiles
    /\ testFile \in TestFiles
    /\ Idle /\ CodecIdle

Next ==
    \/ \E p \in SizesValidate, seed \in Seeds : Construct(p, seed)
    \/ WriteBegin
    \/ WriteExample
    \/ WriteNext

Spec == Init /\ [][Next]_vars

\* ------------------------------------------------- the manifest loader
Chars == {"a", "_", " ", "\n"}

InitLoad ==
    /\ labelsFile = NoFile /\ trainFile = NoFile /\ testFile = NoFile
    /\ Idle
    /\ content \in {File(t) : t \in SeqsUpTo(Chars, MaxChars)} \cup {NoFile}
    /\ examples = <<>>
    /\ arrays = <<>> /\ serialized = <<>> /\ example = <<>> /\ features = <<>>
    /\ step = "manifest"

\* __load_examples on the manifest
Load ==
    /\ step = "manifest"
    /\ \E r \in {LoadExamples(content)} :
          /\ step' = IF r.ok THEN "loaded" ELSE "load_failed"
          /\ examples' = r.examples
    /\ UNCHANGED <<inputDir, pc, err, args, dataset, pyRandom, prev, writer,
                   content, arrays, serialized, example, features>>

SpecLoad == InitLoad /\ [][Load]_vars

\* ------------------------------------------- serialize, deserialize, preprocess
\* the (n, m) array whose entries are base + 2, base + 4, ... row by row
Ramp(n, m, base) == Array(n, m, [i \in 1..(n * m) |-> base + 2 * i])
ArraysIn == {Ramp(n, m, base) : n \in 1..MaxRows, m \in 2..3, base \in 0..1}

InitCodec ==
    /\ labelsFile = NoFile /\ trainFile = NoFile /\ testFile = NoFile
    /\ Idle
    /\ content = NoFile /\ examples = <<>>
    /\ arrays \in {<<[xyz |-> x, points |-> q, label |-> l]>> :
                      x \in ArraysIn, q \in ArraysIn, l \in 0..1}
    /\ serialized = <<>> /\ example = <<>> /\ features = <<>>
    /\ step = "arrays"

SerializeStep ==
    /\ step = "arrays"
    /\ \E r \in {Serialize(arrays[1].xyz, arrays[1].points, arrays[1].label)} :
          /\ step' = IF r.ok THEN "serialized" ELSE "assert_failed"
          /\ serialized' = IF r.ok THEN <<r.example>> ELSE <<>>
    /\ UNCHANGED <<inputDir, pc, err, args, dataset, pyRandom, prev, writer,
                   content, examples, arrays, example, features>>

DeserializeStep ==
    /\ step = "serialized"
    /\ \E r \in {Deserialize(serialized[1])} :
          /\ step' = IF r.ok THEN "deserialized" ELSE "parse_failed"
          /\ example' = IF r.ok THEN <<r.example>> ELSE <<>>
    /\ UNCHANGED <<inputDir, pc, err, args, dataset, pyRandom, prev, writer,
                   content, examples, arrays, serialized, features>>

\* preprocess; tf.random.shuffle is unseeded and may draw any permutation
PreprocessStep ==
    /\ step = "deserialized"
    /\ \E shuffled_indices \in Perms(N) :
          features' = <<Preprocess(example[1], shuffled_indices)>>
    /\ step' = "preprocessed"
    /\ UNCHANGED <<inputDir, pc, err, args, dataset, pyRandom, prev, writer,
                   content, examples, arrays, serialized, example>>

NextCodec == SerializeStep \/ DeserializeStep \/ PreprocessStep

SpecCodec == InitCodec /\ [][NextCodec]_vars

\* ----------------------------------------------- claims about the writer
\* the text of an identifier before its last underscore
BeforeLastUnderscore(t) == SubSeq(t, 1, Max(Positions(t, "_")) - 1)
\* the 0-based place of a label in the registry
PlaceInRegistry(label) == (CHOOSE i \in 1..Len(labels) : labels[i] = label) - 1
\* the float32 entries of columns from..to of the rows, row by row
Flat(rows, from, to) ==
    Concat([i \in 1..Len(rows) |->
              [k \in 1..(to - from + 1) |-> Float32(rows[i][from + k - 1])]])
\* the record of an identifier: its file's coordinates and normals, the place
\* of its label in the registry, and the dimensions
RecordOf(t) ==
    LET rows == PointCloudFile(BeforeLastUnderscore(t), t).rows
    IN [xyz |-> Flat(rows, 1, 3), points |-> Flat(rows, 4, 6),
        label |-> <<PlaceInRegistry(BeforeLastUnderscore(t))>>,
        N |-> <<Len(rows)>>, d |-> <<3>>, C |-> <<3>>]
RecordsOf(ts) == [i \in 1..Len(ts) |-> RecordOf(ts[i])]
\* __write has returned for the q-th output file
Completed(q) ==
    \/ pc = "written"
    \/ pc \in {"writing", "write_failed"} /\ q < part

\* C4: once __write has completed on a sequence of k identifiers, the file
\* holds exactly k records and the i-th is the record of the i-th identifier,
\* repeated identifiers included; while it runs the file holds the records of
\* the identifiers done so far, in their order.
C4_WriterKeepsOrder ==
    \A q \in 1..3 :
        /\ Completed(q) => tfrecords[q].records = RecordsOf(Partition(q))
        /\ (pc \in {"writing", "write_failed"} /\ q = part) =>
              tfrecords[q].records = RecordsOf(SubSeq(Partition(q), 1, pos))

C4_Witness ==
    /\ pc = "written"
    /\ \E q \in 1..3 :
          /\ Len(Partition(q)) >= 2
          /\ ~NoDuplicates(Partition(q))
    /\ \E q \in 1..3 :
          /\ Len(Partition(q)) >= 2
          /\ Partition(q)[1] # Partition(q)[2]

\* C6: every record in an output file carries, as its label id, the place in
\* the registry of the text before the last underscore of the identifier it
\* was written for.
C6_LabelBeforeLastUnderscore ==
    \A q \in 1..3 : \A i \in 1..Len(tfrecords[q].records) :
        /\ Positions(Partition(q)[i], "_") # {}
        /\ tfrecords[q].records[i].label[1] + 1 \in 1..Len(labels)
        /\ labels[tfrecords[q].records[i].label[1] + 1]
              = BeforeLastUnderscore(Partition(q)[i])

C6_Witness ==
    /\ pc = "written"
    /\ <<"r">> \in Range(labels)
    /\ \E q \in 1..3 : \E i \in 1..Len(tfrecords[q].records) :
          /\ Cardinality(Positions(Partition(q)[i], "_")) = 2
          /\ tfrecords[q].records[i].label = <<3>>

\* the k-th identifier of the q-th sequence has a label that is not in the
\* registry, and its source file exists and parses
UnknownLabelAt(q, k) ==
    /\ Positions(Partition(q)[k], "_") # {}
    /\ BeforeLastUnderscore(Partition(q)[k]) \notin Range(labels)
    /\ PointCloudFile(BeforeLastUnderscore(Partition(q)[k]), Partition(q)[k]).kind = "numeric"

\* C7: when the identifier at position k of a sequence handed to the writer
\* has a label that is not in the registry, no record is appended for k or
\* for anything after it, no later output file is opened, write() never
\* completes, and the writer stopped at k holds exactly the records of the
\* identifiers before k, has raised KeyError, and takes no further step.
C7_UnknownLabelStopsWriter ==
    pc \in {"writing", "write_failed", "written"} =>
        \A q \in 1..3 : \A k \in 1..Len(Partition(q)) :
            UnknownLabelAt(q, k) =>
                /\ Len(tfrecords[q].records) < k
                /\ \A r \in (q + 1)..3 : ~tfrecords[r].exists
                /\ pc # "written"
                /\ (part = q /\ pos = k - 1 /\ pc = "write_failed") =>
                      /\ err = "KeyError"
                      /\ tfrecords[q].records = RecordsOf(SubSeq(Partition(q), 1, k - 1))
                      /\ ~ENABLED (WriteBegin \/ WriteExample \/ WriteNext)

C7_Witness ==
    /\ pc = "write_failed" /\ err = "KeyError"
    /\ part < 3 /\ pos >= 1
    /\ UnknownLabelAt(part, pos + 1)
    /\ Len(tfrecords[part].records) = pos

\* ------------------------------------------------ claims about the codec
IsFloat32(x) == x % 2 = 0
\* serialize accepted the arrays and deserialize has run on what it returned
RoundTripRun == step \in {"deserialized", "parse_failed"}

\* C5 as stated: whenever serialize accepts xyz, points and label,
\* deserialize succeeds on the result and recovers xyz, points and label
\* exactly, with N, d and C the dataset constants.
C5_RoundTripAlways ==
    RoundTripRun =>
        /\ step = "deserialized"
        /\ example[1].xyz = arrays[1].xyz.v
        /\ example[1].points = arrays[1].points.v
        /\ example[1].label = <<arrays[1].label>>
        /\ example[1].N = <<N>> /\ example[1].d = <<d>> /\ example[1].C = <<C>>

\* C5 amended: for float32 arrays xyz of shape (N, d) and points of shape
\* (N, C), deserialize succeeds on what serialize returns and recovers xyz,
\* points and label exactly, with N, d and C the dataset constants.
C5_RoundTripOfFixedShape ==
    ( /\ RoundTripRun
      /\ arrays[1].xyz.n = N /\ arrays[1].xyz.m = d
      /\ arrays[1].points.n = N /\ arrays[1].points.m = C
      /\ \A i \in 1..(N * d) : IsFloat32(arrays[1].xyz.v[i])
      /\ \A i \in 1..(N * C) : IsFloat32(arrays[1].points.v[i]) ) =>
        /\ step = "deserialized"
        /\ example[1].xyz = arrays[1].xyz.v
        /\ example[1].points = arrays[1].points.v
        /\ example[1].label = <<arrays[1].label>>
        /\ example[1].N = <<N>> /\ example[1].d = <<d>> /\ example[1].C = <<C>>

C5_Witness ==
    /\ step = "deserialized"
    /\ arrays[1].xyz.n = N /\ arrays[1].xyz.m = d
    /\ arrays[1].points.n = N /\ arrays[1].points.m = C
    /\ \A i \in 1..(N * d) : IsFloat32(arrays[1].xyz.v[i])
    /\ \A i \in 1..(N * C) : IsFloat32(arrays[1].points.v[i])
    /\ arrays[1].label = 1

\* C9: preprocess returns the label of the record unchanged and N rows of six
\* entries, and some permutation pi of the points makes every output row j
\* the centered coordinates of point pi(j) followed by the normal of pi(j).
C9_PreprocessPermutesPoints ==
    step = "preprocessed" =>
        /\ features[1].label = example[1].label
        /\ Len(features[1].features) = N
        /\ \A j \in 1..N : Len(features[1].features[j]) = d + C
        /\ \E pi \in Perms(N) : \A j \in 1..N :
              features[1].features[j]
                = Center(Reshape(example[1].xyz, N, d))[pi[j]]
                    \o Reshape(example[1].points, N, C)[pi[j]]

C9_Witness ==
    /\ step = "preprocessed"
    /\ features[1].features[1]
          = Center(Reshape(example[1].xyz, N, d))[N] \o Reshape(example[1].points, N, C)[N]
    /\ Reshape(example[1].points, N, C)[1] # Reshape(example[1].points, N, C)[N]

\* ----------------------------------------------- claims about the loader
\* the whitespace-trimmed non-empty lines of a text, in file order
NonEmptyLines(text) ==
    LET trimmed == [i \in 1..Len(ReadLines(text)) |-> Strip(ReadLines(text)[i])]
    IN SelectSeq(trimmed, LAMBDA l : l # <<>>)

\* C10: the loader returns one identifier per non-empty line, trimmed, in
\* file order, duplicates kept; blank and whitespace-only lines contribute
\* no identifier.
C10_BlankLinesContributeNothing ==
    step = "loaded" => examples = NonEmptyLines(content.text)

====
